---- MODULE Spec2Model ----
(***************************************************************************)
(* pm2md: conversion of a Postman collection to markdown.                  *)
(*                                                                         *)
(* Three specifications over one set of variables:                         *)
(*   SpecParse   parseStatusRanges applied to every bounded expression     *)
(*   SpecFilter  filterResponsesByStatus applied (repeatedly) to every     *)
(*               bounded collection and range list                         *)
(*   Spec        jsonToMdFile, one call per process, run after run over a  *)
(*               file system that persists between runs                    *)
(*                                                                         *)
(* Go strings that the code takes apart (the status expression, the        *)
(* collection name) are sequences of one-character strings; file names,    *)
(* which the code only compares and concatenates, are strings.             *)
(***************************************************************************)
EXTENDS Integers, Sequences, FiniteSets, TLC

\* ------------------------------------------------------------------ bounds
\* longest status expression, in characters
MaxLen == 4
\* most endpoints in a collection's item list
MaxEndpoints == 2
\* most sample responses in a whole collection
MaxResponses == 3
\* most ranges in a status range list
MaxRanges == 1
\* most calls of filterResponsesByStatus on one collection
MaxCalls == 2
\* most runs of the program over one file system
MaxRuns == 2

VARIABLES
    \* parseStatusRanges: its argument and what it returned
    statusesStr, parsed,
    \* filterResponsesByStatus: the collection (mutated in place), the ranges,
    \* the collection as it was before the first call, the number of calls
    collection, statusRanges, original, applied,
    \* jsonToMdFile: position in the call, the arguments once they were read,
    \* the sink, the process's standard output, the file system
    pc, jsonBytes, destNameArg, confirmReplace, destName, destFile, fileOpen,
    stdoutOpen, renderErr, result, fs, fsAtCall, runs

parseVars == <<statusesStr, parsed>>
filterVars == <<collection, statusRanges, original, applied>>
pipeVars == <<pc, jsonBytes, destNameArg, confirmReplace, destName, destFile,
              fileOpen, stdoutOpen, renderErr, result, fs, fsAtCall, runs>>
vars == <<statusesStr, parsed, collection, statusRanges, original, applied,
          pc, jsonBytes, destNameArg, confirmReplace, destName, destFile,
          fileOpen, stdoutOpen, renderErr, result, fs, fsAtCall, runs>>

\* ------------------------------------------------------------ Go values
\* A slice that may be nil: Go tells nil from empty, the code tests both.
NilSlice == [nil |-> TRUE, elems |-> <<>>]
Slice(s) == [nil |-> FALSE, elems |-> s]

NoErr == "nil"

\* strings.Split(s, sep) for a one-character separator: the pieces between
\* the separators, len(pieces) = count(sep) + 1.
RECURSIVE Split(_, _)
Split(s, sep) ==
    IF \A i \in 1..Len(s) : s[i] # sep
    THEN <<s>>
    ELSE LET i == CHOOSE k \in 1..Len(s) :
                      s[k] = sep /\ \A j \in 1..(k - 1) : s[j] # sep
         IN  <<SubSeq(s, 1, i - 1)>> \o Split(SubSeq(s, i + 1, Len(s)), sep)

Digits == <<"0", "1", "2", "3", "4", "5", "6", "7", "8", "9">>
IsDigit(c) == \E d \in 1..10 : Digits[d] = c
DigitVal(c) == (CHOOSE d \in 1..10 : Digits[d] = c) - 1

RECURSIVE DecimalVal(_, _)
DecimalVal(s, acc) ==
    IF s = <<>> THEN acc ELSE DecimalVal(Tail(s), acc * 10 + DigitVal(Head(s)))

\* strconv.Atoi: an optional sign, then one or more decimal digits.
Atoi(s) ==
    LET signed == s # <<>> /\ Head(s) \in {"+", "-"}
        digits == IF signed THEN Tail(s) ELSE s
        ok == digits # <<>> /\ \A i \in 1..Len(digits) : IsDigit(digits[i])
        mag == IF ok THEN DecimalVal(digits, 0) ELSE 0
    IN  [val |-> IF signed /\ Head(s) = "-" THEN 0 - mag ELSE mag,
         err |-> IF ok THEN NoErr ELSE "syntax"]

\* --------------------------------------------------- parseStatusRanges
ErrDashes == "Invalid status format. There should be zero or one dashes"
ErrInteger == "Invalid status range format. Expected an integer"

\* A bug parseStatusRanges could have: the ranges filled so far are returned
\* with the error.
RECURSIVE ParseLoopPartial(_, _, _)
ParseLoopPartial(statusRangeStrs, i, acc) ==
    IF i > Len(statusRangeStrs)
    THEN [ranges |-> Slice(acc), err |-> NoErr]
    ELSE LET startAndEnd == Split(statusRangeStrs[i], "-")
             start == Atoi(startAndEnd[1])
             end == IF Len(startAndEnd) > 1 THEN Atoi(startAndEnd[2]) ELSE start
         IN  IF Len(startAndEnd) > 2
             THEN [ranges |-> Slice(acc), err |-> ErrDashes]
             ELSE IF start.err # NoErr
             THEN [ranges |-> Slice(acc), err |-> ErrInteger]
             ELSE IF Len(startAndEnd) > 1 /\ end.err # NoErr
             THEN [ranges |-> Slice(acc), err |-> ErrInteger]
             ELSE ParseLoopPartial(statusRangeStrs, i + 1,
                                   Append(acc, <<start.val, end.val>>))

\* The loop of parseStatusRanges from token i on; acc is statusRanges[0..i-1].
RECURSIVE ParseLoop(_, _, _)
ParseLoop(statusRangeStrs, i, acc) ==
    IF i > Len(statusRangeStrs)
    THEN [ranges |-> Slice(acc), err |-> NoErr]
    ELSE LET startAndEnd == Split(statusRangeStrs[i], "-")
             start == Atoi(startAndEnd[1])
             end == IF Len(startAndEnd) > 1 THEN Atoi(startAndEnd[2]) ELSE start
         IN  IF Len(startAndEnd) > 2
             THEN [ranges |-> NilSlice, err |-> ErrDashes]
             ELSE IF start.err # NoErr
             THEN [ranges |-> NilSlice, err |-> ErrInteger]
             ELSE IF Len(startAndEnd) > 1 /\ end.err # NoErr
             THEN [ranges |-> NilSlice, err |-> ErrInteger]
             ELSE ParseLoop(statusRangeStrs, i + 1,
                            Append(acc, <<start.val, end.val>>))

parseStatusRanges(str) ==
    IF Len(str) = 0
    THEN [ranges |-> NilSlice, err |-> NoErr]
    ELSE ParseLoop(Split(str, ","), 1, <<>>)

\* The characters status expressions are drawn from.
ExprChars == {"1", "2", "-", ",", "a", "+"}

RECURSIVE SeqsUpTo(_, _)
SeqsUpTo(S, n) ==
    IF n = 0 THEN {<<>>}
    ELSE LET shorter == SeqsUpTo(S, n - 1)
         IN  shorter \cup {Append(s, x) : s \in {t \in shorter : Len(t) = n - 1}, x \in S}

NotRun == [ranges |-> NilSlice, err |-> "not run"]

ParseIdle == statusesStr = <<>> /\ parsed = NotRun

InitParseInputs == statusesStr \in SeqsUpTo(ExprChars, MaxLen) /\ parsed = NotRun

ParseStatusRanges ==
    /\ parsed = NotRun
    /\ parsed' = parseStatusRanges(statusesStr)
    /\ UNCHANGED <<statusesStr, filterVars, pipeVars>>

\* ------------------------------------------------------ JSON documents
\* json.Unmarshal into map[string]any: an object is a map, an array a []any,
\* a number a float64; a key the map lacks reads as the nil interface.
JAbsent == [tag |-> "absent"]
JString(s) == [tag |-> "string", str |-> s]
JNumber(n) == [tag |-> "number", num |-> n]
JArray(s) == [tag |-> "array", elems |-> s]
JInfo(name, schema) == [tag |-> "object", name |-> name, schema |-> schema]

\* A float64 status code: floor + 1/2 when half, floor otherwise.
Float(floor, half) == [floor |-> floor, half |-> half]

\* Go's int(f) of a float64: the fraction is discarded, toward zero.
IntOfFloat(f) == IF f.half /\ f.floor < 0 THEN f.floor + 1 ELSE f.floor

ExpectedSchema == "https://schema.getpostman.com/json/collection/v2.1.0/collection.json"

\* ---------------------------------------------- filterResponsesByStatus
\* slices.Delete(s, j, j+1), j counted from 1 here.
Delete(s, j) == SubSeq(s, 1, j - 1) \o SubSeq(s, j + 1, Len(s))

\* The innermost loop: whether some range holds the response's code.
InRange(response, ranges) ==
    \E i \in 1..Len(ranges) :
        LET code == IntOfFloat(response.code)
        IN  code >= ranges[i][1] /\ code <= ranges[i][2]

\* A bug the loop could have: after a deletion the next index is skipped.
RECURSIVE FilterLoopSkipping(_, _, _)
FilterLoopSkipping(responses, j, ranges) ==
    IF j < 1 THEN responses
    ELSE IF InRange(responses[j], ranges)
    THEN FilterLoopSkipping(responses, j - 1, ranges)
    ELSE FilterLoopSkipping(Delete(responses, j), j - 2, ranges)

\* The loop over one endpoint's responses, from index j down to the first.
RECURSIVE FilterLoop(_, _, _)
FilterLoop(responses, j, ranges) ==
    IF j < 1 THEN responses
    ELSE IF InRange(responses[j], ranges)
    THEN FilterLoop(responses, j - 1, ranges)
    ELSE FilterLoop(Delete(responses, j), j - 1, ranges)

FilterEndpoints(coll, ranges) ==
    [coll EXCEPT !.item.elems =
        [i \in 1..Len(coll.item.elems) |->
            [coll.item.elems[i] EXCEPT !.response.elems =
                FilterLoop(@, Len(@), ranges.elems)]]]

\* A bug filterResponsesByStatus could have: no early return.
FilterWithoutEarlyReturn(coll, ranges) == FilterEndpoints(coll, ranges)

filterResponsesByStatus(coll, ranges) ==
    IF ranges.nil \/ Len(ranges.elems) = 0
    THEN coll
    ELSE FilterEndpoints(coll, ranges)

\* The type assertions on item and response panic on a value of another
\* shape; they are reached only past the early return.
filterPanics(coll, ranges) ==
    IF ranges.nil \/ Len(ranges.elems) = 0 THEN FALSE
    ELSE IF coll.item.tag # "array" THEN TRUE
    ELSE \E i \in 1..Len(coll.item.elems) :
             coll.item.elems[i].response.tag # "array"

\* The status codes of the bounded inputs: 0, 1/2, 1 and 3/2.
Codes == {Float(0, FALSE), Float(0, TRUE), Float(1, FALSE), Float(1, TRUE)}
\* The integers range bounds are drawn from.
RangeEnds == {0, 1}

ValidInfo == JInfo(JString(<<"a", "p", "i">>), JString(ExpectedSchema))

\* The collection holding the responses coded flat[1..], cut into endpoints:
\* endpoint i holds the responses cut[i-1]+1 .. cut[i].
MakeCollection(flat, cut) ==
    [info |-> ValidInfo,
     item |-> JArray(
        [i \in 1..Len(cut) |->
            LET prev == IF i = 1 THEN 0 ELSE cut[i - 1]
            IN  [name |-> i,
                 response |-> JArray([j \in 1..(cut[i] - prev) |->
                                  [name |-> prev + j, code |-> flat[prev + j]]])]])]

Cuts(e, n) ==
    {c \in [1..e -> 0..n] :
        /\ \A i \in 1..(e - 1) : c[i] <= c[i + 1]
        /\ IF e = 0 THEN n = 0 ELSE c[e] = n}

Collections ==
    UNION {{MakeCollection(flat, cut) : cut \in Cuts(e, Len(flat))} :
              flat \in SeqsUpTo(Codes, MaxResponses), e \in 0..MaxEndpoints}

RangeLists ==
    {NilSlice} \cup {Slice(s) : s \in SeqsUpTo(RangeEnds \X RangeEnds, MaxRanges)}

NoCollection == [info |-> JAbsent, item |-> JAbsent]

FilterIdle ==
    /\ collection = NoCollection
    /\ statusRanges = NilSlice
    /\ original = NoCollection
    /\ applied = 0

InitFilterInputs ==
    /\ collection \in Collections
    /\ statusRanges \in RangeLists
    /\ original = collection
    /\ applied = 0

FilterResponsesByStatus ==
    /\ applied < MaxCalls
    /\ collection' = filterResponsesByStatus(collection, statusRanges)
    /\ applied' = applied + 1
    /\ UNCHANGED <<statusRanges, original, parseVars, pipeVars>>

\* --------------------------------------------------------- file system
\* fs maps each existing path to its file's content.
FileExists(files, path) == path \in DOMAIN files

\* os.Create: the file is created, or truncated when it exists.
Create(files, path) ==
    [p \in DOMAIN files \cup {path} |-> IF p = path THEN "" ELSE files[p]]

\* What the template writes into an open file.
Write(files, path, content) ==
    [p \in DOMAIN files |-> IF p = path THEN content ELSE files[p]]

\* A bug the cleanup could have: the file is closed and left in place.
RemoveNothing(files, path) == files

\* os.Remove; the error for a missing path is discarded by the caller.
Remove(files, path) == [p \in DOMAIN files \ {path} |-> files[p]]

\* ------------------------------------------------- names of new files
RECURSIVE Join(_)
Join(chars) == IF chars = <<>> THEN "" ELSE Head(chars) \o Join(Tail(chars))

IllegalFileNameChars == {"<", ">", ":", "/", "\\", "|", "?", "*"}

\* FormatFileName: the characters a file name may not hold are stripped.
FormatFileName(name) ==
    Join(SelectSeq(name, LAMBDA c : c \notin IllegalFileNameChars))

Numbered(base, k, ext) == base \o "(" \o ToString(k) \o ")" \o ext

RECURSIVE ProbeFrom(_, _, _, _)
ProbeFrom(base, ext, k, files) ==
    IF ~FileExists(files, Numbered(base, k, ext))
    THEN Numbered(base, k, ext)
    ELSE ProbeFrom(base, ext, k + 1, files)

\* CreateUniqueFileName for a well-formed ext (it panics on any other).
CreateUniqueFileName(base, ext, files) ==
    IF ~FileExists(files, base \o ext)
    THEN base \o ext
    ELSE ProbeFrom(base, ext, 1, files)

\* ------------------------------------------------------ parseCollection
ErrDecode == "json: cannot unmarshal"
ErrSchema == "Unknown JSON schema. When exporting from Postman, export as Collection v2.1.0"

Returned(coll, err) == [panic |-> FALSE, collection |-> coll, err |-> err]
Panicked == [panic |-> TRUE, collection |-> NoCollection, err |-> NoErr]

\* bytes is the document by what json.Unmarshal makes of it: an error, the
\* nil map (JSON null), or a map. collection["info"].(map[string]any) panics
\* unless info is an object.
parseCollection(bytes) ==
    IF bytes.kind = "malformed"
    THEN Returned(NoCollection, ErrDecode)
    ELSE IF bytes.kind = "null" \/ bytes.info.tag # "object"
    THEN Panicked
    ELSE IF bytes.info.schema # JString(ExpectedSchema)
    THEN Returned(NoCollection, ErrSchema)
    ELSE Returned([info |-> bytes.info, item |-> bytes.item], NoErr)

\* ---------------------------------------------------------- getDestFile
ErrExists == "File already exists. Run the command again with the --replace flag"
ErrCreate == "os.Create"

\* A bug getDestFile could have: the generated name is not probed.
AutoDestNameUnprobed(collectionName, files) ==
    LET fileName == FormatFileName(collectionName)
    IN  (IF fileName = "" THEN "collection" ELSE fileName) \o ".md"

\* The name getDestFile gives the file when destName is empty.
AutoDestName(collectionName, files) ==
    LET fileName == FormatFileName(collectionName)
    IN  CreateUniqueFileName(IF fileName = "" THEN "collection" ELSE fileName,
                             ".md", files)

\* A bug getDestFile could have: the confirmation is not asked for.
DestConflictNever(name, confirm, files) == FALSE

\* The test that makes getDestFile refuse an existing file.
DestConflict(name, confirm, files) == FileExists(files, name) /\ ~confirm

Sink(kind, name, err, files) ==
    [destFile |-> kind, destName |-> name, err |-> err, fs |-> files]

\* created says whether the operating system grants os.Create.
getDestFile(name, collectionName, confirm, files, created) ==
    IF name = "-"
    THEN Sink("stdout", name, NoErr, files)
    ELSE IF name # "" /\ DestConflict(name, confirm, files)
    THEN Sink("nil", "", ErrExists, files)
    ELSE LET dest == IF name = "" THEN AutoDestName(collectionName, files) ELSE name
         IN  IF ~created
             THEN Sink("nil", "", ErrCreate, files)
             ELSE Sink("file", dest, NoErr, Create(files, dest))

\* --------------------------------------------------------- jsonToMdFile
\* A bug jsonToMdFile could have: no deferred Close.
DeferredCloseMissing(name, open) == open

\* defer destFile.Close(), registered when destName is not "-".
DeferredClose(name, open) == IF name # "-" THEN FALSE ELSE open

CollectionNames == {<<"a", "p", "i">>, <<"?">>}
OtherSchema == "https://schema.getpostman.com/json/collection/v2.0.0/collection.json"
Schemas == {JAbsent, JString(ExpectedSchema), JString(OtherSchema), JNumber(2)}
Infos ==
    {JAbsent, JString("info")}
    \cup {JInfo(n, s) : n \in {JAbsent} \cup {JString(c) : c \in CollectionNames},
                        s \in Schemas}
Items ==
    {JAbsent,
     JArray(<<>>),
     JArray(<<[name |-> 1, response |-> JAbsent]>>),
     JArray(<<[name |-> 1,
               response |-> JArray(<<[name |-> 1, code |-> Float(0, FALSE)],
                                     [name |-> 2, code |-> Float(1, TRUE)]>>)]>>)}

Document(kind, info, item) == [kind |-> kind, info |-> info, item |-> item]
NoDocument == Document("none", JAbsent, JAbsent)
Documents ==
    {Document("malformed", JAbsent, JAbsent), Document("null", JAbsent, JAbsent)}
    \cup {Document("object", i, t) : i \in Infos, t \in Items}

PipeRanges == {NilSlice, Slice(<<>>), Slice(<<<<0, 0>>>>)}
DestNames == {"-", "", "out.md"}
InitialPaths == {"-", "out.md", "api.md", "api(1).md"}
TemplateOutcomes == {NoErr, "Template parsing error", "template: execute error"}

NoResult == [name |-> "", err |-> "not returned"]
Result(name, err) == [name |-> name, err |-> err]

PipeIdle ==
    /\ pc = "idle"
    /\ jsonBytes = NoDocument
    /\ destNameArg = ""
    /\ confirmReplace = FALSE
    /\ destName = ""
    /\ destFile = "nil"
    /\ fileOpen = FALSE
    /\ stdoutOpen = TRUE
    /\ renderErr = NoErr
    /\ result = NoResult
    /\ fs = <<>>
    /\ fsAtCall = <<>>
    /\ runs = 0

InitPipe ==
    /\ pc = "idle"
    /\ jsonBytes = NoDocument
    /\ destNameArg = ""
    /\ confirmReplace = FALSE
    /\ destName = ""
    /\ destFile = "nil"
    /\ fileOpen = FALSE
    /\ stdoutOpen = TRUE
    /\ renderErr = NoErr
    /\ result = NoResult
    /\ fs \in {[p \in S |-> "old"] : S \in SUBSET InitialPaths}
    /\ fsAtCall = fs
    /\ runs = 0

\* A new process calls jsonToMdFile: nothing is open but standard output.
StartRun ==
    /\ pc \in {"idle", "done", "panicked"}
    /\ runs < MaxRuns
    /\ runs' = runs + 1
    /\ pc' = "parseCollection"
    /\ jsonBytes' = NoDocument
    /\ destNameArg' = ""
    /\ confirmReplace' = FALSE
    /\ destName' = ""
    /\ destFile' = "nil"
    /\ fileOpen' = FALSE
    /\ stdoutOpen' = TRUE
    /\ renderErr' = NoErr
    /\ result' = NoResult
    /\ fsAtCall' = fs
    /\ collection' = NoCollection
    /\ statusRanges' = NilSlice
    /\ UNCHANGED <<fs, original, applied, parseVars>>

\* collection, err := parseCollection(jsonBytes)
ParseCollection ==
    /\ pc = "parseCollection"
    /\ \E bytes \in Documents :
        LET r == parseCollection(bytes)
        IN  /\ jsonBytes' = bytes
            /\ \/ /\ r.panic
                  /\ pc' = "panicked"
                  /\ UNCHANGED <<collection, result>>
               \/ /\ ~r.panic /\ r.err # NoErr
                  /\ pc' = "done"
                  /\ result' = Result("", r.err)
                  /\ UNCHANGED collection
               \/ /\ ~r.panic /\ r.err = NoErr
                  /\ pc' = "filter"
                  /\ collection' = r.collection
                  /\ UNCHANGED result
    /\ UNCHANGED <<parseVars, statusRanges, original, applied, destNameArg, confirmReplace,
                   destName, destFile, fileOpen, stdoutOpen, renderErr, fs,
                   fsAtCall, runs>>

\* filterResponsesByStatus(collection, statusRanges)
FilterStep ==
    /\ pc = "filter"
    /\ \E ranges \in PipeRanges :
        /\ statusRanges' = ranges
        /\ \/ /\ filterPanics(collection, ranges)
              /\ pc' = "panicked"
              /\ UNCHANGED collection
           \/ /\ ~filterPanics(collection, ranges)
              /\ pc' = "getDestFile"
              /\ collection' = filterResponsesByStatus(collection, ranges)
    /\ UNCHANGED <<parseVars, original, applied, jsonBytes, destNameArg, confirmReplace,
                   destName, destFile, fileOpen, stdoutOpen, renderErr, result,
                   fs, fsAtCall, runs>>

\* collectionName := ...["name"].(string), then getDestFile and the defer.
GetDestFile ==
    /\ pc = "getDestFile"
    /\ \/ /\ collection.info.name.tag # "string"
          /\ pc' = "panicked"
          /\ UNCHANGED <<destNameArg, confirmReplace, destName, destFile,
                         fileOpen, result, fs>>
       \/ /\ collection.info.name.tag = "string"
          /\ \E name \in DestNames, confirm \in BOOLEAN, created \in BOOLEAN :
                LET r == getDestFile(name, collection.info.name.str, confirm,
                                     fs, created)
                IN  /\ destNameArg' = name
                    /\ confirmReplace' = confirm
                    /\ destName' = r.destName
                    /\ destFile' = r.destFile
                    /\ fileOpen' = (r.destFile = "file")
                    /\ fs' = r.fs
                    /\ \/ /\ r.err # NoErr
                          /\ pc' = "done"
                          /\ result' = Result("", r.err)
                       \/ /\ r.err = NoErr
                          /\ pc' = "executeTemplate"
                          /\ UNCHANGED result
    /\ UNCHANGED <<parseVars, collection, statusRanges, original, applied, jsonBytes,
                   stdoutOpen, renderErr, fsAtCall, runs>>

\* executeTemplate(destFile, collection, tmplName, tmplStr): the template
\* fails to parse (nothing written), fails while executing (part written),
\* or writes the whole document.
ExecuteTemplate ==
    /\ pc = "executeTemplate"
    /\ \E err \in TemplateOutcomes :
        /\ renderErr' = err
        /\ fs' = IF destFile # "file" \/ err = "Template parsing error" THEN fs
                 ELSE Write(fs, destName, IF err = NoErr THEN "markdown" ELSE "partial")
        /\ \/ /\ err # NoErr
              /\ pc' = "cleanup"
              /\ UNCHANGED result
           \/ /\ err = NoErr
              /\ pc' = "return"
              /\ result' = Result(destName, NoErr)
    /\ UNCHANGED <<parseVars, collection, statusRanges, original, applied, jsonBytes,
                   destNameArg, confirmReplace, destName, destFile, fileOpen,
                   stdoutOpen, fsAtCall, runs>>

\* destFile.Close(); os.Remove(destName); return "", err
Cleanup ==
    /\ pc = "cleanup"
    /\ \/ /\ destFile = "stdout"
          /\ stdoutOpen' = FALSE
          /\ UNCHANGED fileOpen
       \/ /\ destFile = "file"
          /\ fileOpen' = FALSE
          /\ UNCHANGED stdoutOpen
    /\ fs' = Remove(fs, destName)
    /\ result' = Result("", renderErr)
    /\ pc' = "return"
    /\ UNCHANGED <<parseVars, collection, statusRanges, original, applied, jsonBytes,
                   destNameArg, confirmReplace, destName, destFile, renderErr,
                   fsAtCall, runs>>

\* The deferred call runs and jsonToMdFile returns.
Return ==
    /\ pc = "return"
    /\ fileOpen' = DeferredClose(destName, fileOpen)
    /\ pc' = "done"
    /\ UNCHANGED <<parseVars, collection, statusRanges, original, applied, jsonBytes,
                   destNameArg, confirmReplace, destName, destFile, stdoutOpen,
                   renderErr, result, fs, fsAtCall, runs>>

\* ------------------------------------------------------- specifications
Init == ParseIdle /\ FilterIdle /\ InitPipe
\* One call of jsonToMdFile, statement by statement.
jsonToMdFile ==
    \/ ParseCollection
    \/ FilterStep
    \/ GetDestFile
    \/ ExecuteTemplate
    \/ Cleanup
    \/ Return
Next == StartRun \/ jsonToMdFile
Spec == Init /\ [][Next]_vars

InitParse == InitParseInputs /\ FilterIdle /\ PipeIdle
NextParse == ParseStatusRanges
SpecParse == InitParse /\ [][NextParse]_vars

InitFilter == ParseIdle /\ InitFilterInputs /\ PipeIdle
NextFilter == FilterResponsesByStatus
SpecFilter == InitFilter /\ [][NextFilter]_vars

\* ------------------------------------------------- claims: SpecParse
\* The comma-separated tokens of an expression, found by the commas' places.
CommaPlaces(str) == {i \in 1..Len(str) : str[i] = ","}
TokenCount(str) == Cardinality(CommaPlaces(str)) + 1
\* The place of the t-th comma; 0 before the first token, Len + 1 after the last.
CommaPlace(str, t) ==
    IF t = 0 THEN 0
    ELSE IF t > Cardinality(CommaPlaces(str)) THEN Len(str) + 1
    ELSE CHOOSE p \in CommaPlaces(str) :
             Cardinality({q \in CommaPlaces(str) : q < p}) = t - 1
Token(str, t) == SubSeq(str, CommaPlace(str, t - 1) + 1, CommaPlace(str, t) - 1)

DashPlaces(tok) == {i \in 1..Len(tok) : tok[i] = "-"}
\* A decimal integer as Atoi reads one: an optional sign, then digits.
IsInteger(s) ==
    LET body == IF s # <<>> /\ s[1] \in {"+", "-"} THEN SubSeq(s, 2, Len(s)) ELSE s
    IN  Len(body) > 0 /\ \A i \in 1..Len(body) : body[i] \in {Digits[d] : d \in 1..10}
RECURSIVE Pow10(_)
Pow10(n) == IF n = 0 THEN 1 ELSE 10 * Pow10(n - 1)
RECURSIVE SumDigits(_, _)
SumDigits(body, i) ==
    IF i > Len(body) THEN 0
    ELSE DigitVal(body[i]) * Pow10(Len(body) - i) + SumDigits(body, i + 1)
IntegerValue(s) ==
    IF s[1] = "-" THEN 0 - SumDigits(SubSeq(s, 2, Len(s)), 1)
    ELSE IF s[1] = "+" THEN SumDigits(SubSeq(s, 2, Len(s)), 1)
    ELSE SumDigits(s, 1)
StartPart(tok) ==
    IF DashPlaces(tok) = {} THEN tok
    ELSE SubSeq(tok, 1, (CHOOSE d \in DashPlaces(tok) : TRUE) - 1)
EndPart(tok) ==
    IF DashPlaces(tok) = {} THEN tok
    ELSE SubSeq(tok, (CHOOSE d \in DashPlaces(tok) : TRUE) + 1, Len(tok))
WellFormedToken(tok) ==
    /\ Cardinality(DashPlaces(tok)) <= 1
    /\ IsInteger(StartPart(tok))
    /\ IsInteger(EndPart(tok))
TokenRange(tok) == <<IntegerValue(StartPart(tok)), IntegerValue(EndPart(tok))>>

\* C5: parseStatusRanges on a non-empty expression returns one [start, end]
\* pair per comma-separated token, in token order, "N" giving [N, N] and
\* "N-M" giving [N, M] whatever the order of N and M; when any token has more
\* than one dash or a start or end that is no integer it returns an error and
\* the nil list, never a partial one; the empty expression gives nil and no
\* error.
C5_ParseStatusRanges ==
    parsed # NotRun =>
        IF statusesStr = <<>>
        THEN parsed = [ranges |-> NilSlice, err |-> NoErr]
        ELSE IF \A t \in 1..TokenCount(statusesStr) :
                    WellFormedToken(Token(statusesStr, t))
        THEN /\ parsed.err = NoErr
             /\ ~parsed.ranges.nil
             /\ Len(parsed.ranges.elems) = TokenCount(statusesStr)
             /\ \A t \in 1..TokenCount(statusesStr) :
                    parsed.ranges.elems[t] = TokenRange(Token(statusesStr, t))
        ELSE /\ parsed.err \in {ErrDashes, ErrInteger}
             /\ parsed.ranges = NilSlice

\* C5's case: an ill-formed token after a well-formed one has been parsed.
C5_Witness ==
    /\ parsed # NotRun
    /\ TokenCount(statusesStr) >= 2
    /\ WellFormedToken(Token(statusesStr, 1))
    /\ Cardinality(DashPlaces(Token(statusesStr, 1))) = 1
    /\ ~WellFormedToken(Token(statusesStr, 2))
    /\ parsed.err # NoErr

\* ------------------------------------------------ claims: SpecFilter
\* start <= code <= end for the code's own value, floor or floor + 1/2.
CodeWithin(code, range) ==
    /\ range[1] <= code.floor
    /\ IF code.half THEN code.floor + 1 <= range[2] ELSE code.floor <= range[2]
CodeInSomeRange(code, ranges) ==
    \E i \in 1..Len(ranges) : CodeWithin(code, ranges[i])
\* The truncated code lies in some range.
TruncatedInSomeRange(code, ranges) ==
    \E i \in 1..Len(ranges) :
        ranges[i][1] <= IntOfFloat(code) /\ IntOfFloat(code) <= ranges[i][2]
RECURSIVE InRangeSubsequence(_, _)
InRangeSubsequence(responses, ranges) ==
    IF responses = <<>> THEN <<>>
    ELSE (IF CodeInSomeRange(Head(responses).code, ranges)
          THEN <<Head(responses)>> ELSE <<>>)
         \o InRangeSubsequence(Tail(responses), ranges)
RECURSIVE TruncatedSubsequence(_, _)
TruncatedSubsequence(responses, ranges) ==
    IF responses = <<>> THEN <<>>
    ELSE (IF TruncatedInSomeRange(Head(responses).code, ranges)
          THEN <<Head(responses)>> ELSE <<>>)
         \o TruncatedSubsequence(Tail(responses), ranges)
NonEmptyRanges == ~statusRanges.nil /\ Len(statusRanges.elems) > 0

\* C1: after filterResponsesByStatus returns, for a non-empty list of ranges,
\* each endpoint's response list is exactly the subsequence of its original
\* list made of the responses whose code satisfies start <= code <= end for
\* at least one range, in their original order.
C1_KeptIffCodeInRange ==
    (applied >= 1 /\ NonEmptyRanges) =>
        /\ Len(collection.item.elems) = Len(original.item.elems)
        /\ \A i \in 1..Len(original.item.elems) :
               collection.item.elems[i].response.elems =
                   InRangeSubsequence(original.item.elems[i].response.elems,
                                      statusRanges.elems)

\* What holds in place of C1: the same with the code truncated to an integer.
KeptIffTruncatedCodeInRange ==
    (applied >= 1 /\ NonEmptyRanges) =>
        /\ Len(collection.item.elems) = Len(original.item.elems)
        /\ \A i \in 1..Len(original.item.elems) :
               collection.item.elems[i].response.elems =
                   TruncatedSubsequence(original.item.elems[i].response.elems,
                                        statusRanges.elems)

\* C6: filtering is idempotent: a call of filterResponsesByStatus on a
\* collection already filtered with the same ranges changes nothing.
C6_FilterIdempotent == [][applied >= 1 => collection' = collection]_vars

\* C6's case: two calls, the first of which removed a response.
C6_Witness ==
    /\ applied = 2
    /\ NonEmptyRanges
    /\ collection # original
    /\ \E i \in 1..Len(collection.item.elems) :
           Len(collection.item.elems[i].response.elems) > 0

\* C10: with a nil or empty range list filterResponsesByStatus leaves the
\* whole collection unchanged; with any range list it changes nothing but
\* the contents of the endpoints' response lists: info, the number and order
\* of the endpoints, and every other field stay as they were, and every
\* response still listed is one the endpoint had.
C10_FilterFrame ==
    applied >= 1 =>
        /\ ~NonEmptyRanges => collection = original
        /\ collection.info = original.info
        /\ DOMAIN collection = DOMAIN original
        /\ collection.item.tag = original.item.tag
        /\ Len(collection.item.elems) = Len(original.item.elems)
        /\ \A i \in 1..Len(original.item.elems) :
               /\ [collection.item.elems[i] EXCEPT !.response.elems = <<>>]
                      = [original.item.elems[i] EXCEPT !.response.elems = <<>>]
               /\ \A j \in 1..Len(collection.item.elems[i].response.elems) :
                      \E k \in 1..Len(original.item.elems[i].response.elems) :
                          collection.item.elems[i].response.elems[j]
                              = original.item.elems[i].response.elems[k]

\* C10's case: a call with an empty, non-nil range list on two endpoints
\* that hold responses.
C10_Witness ==
    /\ applied >= 1
    /\ ~statusRanges.nil
    /\ Len(statusRanges.elems) = 0
    /\ Len(collection.item.elems) = 2
    /\ \A i \in 1..2 : Len(collection.item.elems[i].response.elems) > 0

\* ------------------------------------------------------ claims: Spec
\* getDestFile has returned in this call: with a sink, or with one of its
\* two errors.
AfterGetDestFile ==
    \/ pc \in {"executeTemplate", "cleanup", "return"}
    \/ pc = "done" /\ (destFile # "nil" \/ result.err \in {ErrExists, ErrCreate})
\* No file was created, truncated, written or deleted since the call began.
FilesUntouched == fs = fsAtCall
\* The files that existed when the call began are all there, as they were.
ExistingFilesKept ==
    \A p \in DOMAIN fsAtCall : p \in DOMAIN fs /\ fs[p] = fsAtCall[p]

C3_AsStated ==
    (/\ pc \in {"executeTemplate", "done"}
     /\ AfterGetDestFile
     /\ pc = "done" => destFile = "nil"
     /\ destNameArg \notin {"", "-"}
     /\ destNameArg \in DOMAIN fsAtCall) =>
        IF ~confirmReplace
        THEN result.err = ErrExists /\ destFile = "nil" /\ ~fileOpen /\ FilesUntouched
        ELSE /\ pc = "executeTemplate"
             /\ destFile = "file" /\ fileOpen
             /\ destName = destNameArg
             /\ DOMAIN fs = DOMAIN fsAtCall
             /\ \A p \in DOMAIN fs :
                    fs[p] = IF p = destNameArg THEN "" ELSE fsAtCall[p]

\* C3, amended: as stated, except that with confirmation the file is
\* truncated and the open sink returned only when os.Create succeeds; when
\* os.Create fails getDestFile returns the os.Create error, no sink is open
\* and the file is as it was.
C3_ExistingDestination ==
    (/\ pc \in {"executeTemplate", "done"}
     /\ AfterGetDestFile
     /\ pc = "done" => destFile = "nil"
     /\ destNameArg \notin {"", "-"}
     /\ destNameArg \in DOMAIN fsAtCall) =>
        IF ~confirmReplace
        THEN result.err = ErrExists /\ destFile = "nil" /\ ~fileOpen /\ FilesUntouched
        ELSE \/ /\ pc = "executeTemplate"
                /\ destFile = "file" /\ fileOpen
                /\ destName = destNameArg
                /\ DOMAIN fs = DOMAIN fsAtCall
                /\ \A p \in DOMAIN fs :
                       fs[p] = IF p = destNameArg THEN "" ELSE fsAtCall[p]
             \/ /\ pc = "done"
                /\ result.err = ErrCreate
                /\ destFile = "nil" /\ ~fileOpen
                /\ FilesUntouched

\* C3's case: an existing file named as the destination, with confirmation,
\* has just been truncated.
C3_Witness ==
    /\ pc = "executeTemplate"
    /\ destNameArg = "out.md"
    /\ confirmReplace
    /\ "out.md" \in DOMAIN fsAtCall
    /\ fsAtCall["out.md"] = "old"
    /\ fs["out.md"] = ""

\* The document decoded, and its info.schema is not the expected constant
\* (it is another value, or there is none).
DecodedWithOtherSchema ==
    /\ jsonBytes.kind \in {"null", "object"}
    /\ \/ jsonBytes.info.tag # "object"
       \/ /\ jsonBytes.info.tag = "object"
          /\ jsonBytes.info.schema # JString(ExpectedSchema)

\* C4: for every input that decodes, parseCollection returns the schema
\* error whenever info.schema is anything but the expected constant, absent
\* included; jsonToMdFile then returns before filtering and before resolving
\* the destination: no collection is mutated and no file is created,
\* truncated or deleted.
C4_SchemaMismatchIsAnError ==
    (pc # "parseCollection" /\ DecodedWithOtherSchema) =>
        /\ pc = "done"
        /\ result = Result("", ErrSchema)
        /\ collection = NoCollection
        /\ destFile = "nil"
        /\ FilesUntouched

\* C7: when the render fails and the sink is standard output, jsonToMdFile
\* does not close standard output and neither deletes nor creates any file,
\* a file named "-" included.
C7_StdoutLeftAsIs ==
    (pc = "done" /\ destFile = "stdout" /\ renderErr # NoErr) =>
        /\ stdoutOpen
        /\ FilesUntouched

\* The base name getDestFile derives from the collection's name.
BaseName ==
    IF FormatFileName(collection.info.name.str) = "" THEN "collection"
    ELSE FormatFileName(collection.info.name.str)

\* C8: CreateUniqueFileName(base, ext) returns base+ext when no file is
\* there, and otherwise base(k)+ext for the smallest k >= 1 with no file at
\* base(k)+ext; so with an empty destName getDestFile creates its output
\* where no file existed and no file that existed is overwritten.
C8_UniqueNameNeverOverwrites ==
    (AfterGetDestFile /\ destNameArg = "") =>
        /\ ExistingFilesKept
        /\ pc = "executeTemplate" =>
            /\ destFile = "file"
            /\ destName \notin DOMAIN fsAtCall
            /\ DOMAIN fs = DOMAIN fsAtCall \cup {destName}
            /\ fs[destName] = ""
            /\ IF BaseName \o ".md" \notin DOMAIN fsAtCall
               THEN destName = BaseName \o ".md"
               ELSE \E k \in 1..(Cardinality(DOMAIN fsAtCall) + 1) :
                       /\ destName = Numbered(BaseName, k, ".md")
                       /\ \A j \in 1..(k - 1) :
                              Numbered(BaseName, j, ".md") \in DOMAIN fsAtCall

\* C8's case: api.md, api(1).md and api(2).md exist and the output has
\* been created as api(3).md.
C8_Witness ==
    /\ pc = "executeTemplate"
    /\ destNameArg = ""
    /\ {"api.md", "api(1).md", "api(2).md"} \subseteq DOMAIN fsAtCall
    /\ destName = "api(3).md"
    /\ destName \in DOMAIN fs

\* C9: every file-backed sink getDestFile opened is closed when jsonToMdFile
\* returns, after a successful and after a failed render alike; and when an
\* error before rendering ends the call no sink is open.
C9_SinkClosedOnReturn == pc = "done" => ~fileOpen

\* C9's case: a file was opened, the render succeeded and the call returned.
C9_Witness ==
    /\ pc = "done"
    /\ destFile = "file"
    /\ renderErr = NoErr
    /\ result = Result(destName, NoErr)
    /\ fs[destName] = "markdown"
====
